---- MODULE Spec2Model ----
(***************************************************************************)
(* Request/response pipeline of the Klaviyo MCP server:                    *)
(*   - the auto-pagination engine      (src/src/utils/pagination.ts)       *)
(*   - the TTL/LRU response cache      (src/src/utils/cache.ts)            *)
(*   - the request executor and its error taxonomy (src/src/api/client.ts) *)
(* Each component has its own specification (PagSpec, CacheSpec,           *)
(* EvictSpec, ClientSpec); the variables of the other components stay at   *)
(* their initial values.                                                   *)
(***************************************************************************)
EXTENDS Integers, Sequences, FiniteSets, TLC

VARIABLES
    \* ---- pagination engine: one fetchAllPages call against a mock server
    chain,        \* the server's pages: what fetchFn answers for each cursor
    opts,         \* the PaginationOptions of the call
    pc,           \* position of the call: idle, await_first, await_next, done, failed
    allData,      \* accumulated items            (pagination.ts:96)
    allIncluded,  \* accumulated side-loaded objs (pagination.ts:97)
    cursor,       \* cursor of the next page      (pagination.ts:98)
    reqCursor,    \* cursor handed to the fetchFn call that is in flight
    fetches,      \* number of fetchFn calls issued so far (exact up to MaxCount)
    accum,        \* what had been accumulated when accumulation stopped (before any trim)
    result,       \* the AutoPaginatedResponse, once returned
    perr,         \* the error the call rejected with, if any
    thrown,       \* the error a fetchFn call rejected with, and the fetch count then
    lastPage,     \* the page of the chain received last (0: none yet)
    inflight,     \* fetchFn calls issued and not yet settled
    \* ---- response cache (cache.ts)
    cacheEnabled, \* CACHE_CONFIG.enabled
    maxSize,      \* CACHE_CONFIG.maxSize
    cache,        \* the Map, in insertion order: a sequence of [key, e]
    now,          \* Date.now(), in ms
    lastOp,       \* the cache operation of the last step and what it returned
    fresh,        \* the last successful setCache, while no other operation followed it
    twin,         \* the Map of a second run of the same operations in which no sweep runs
    twinGet,      \* what the last getCache returned in that run
    \* ---- request executor (client.ts): one KlaviyoClient, one request at a time
    ctor,         \* the credential the constructor was called with, and what it threw
    client,       \* the KlaviyoClient instance, once constructed
    cpc,          \* position of the request: idle, fetching, errbody, body, done
    creq,         \* the request in progress or just completed
    resp,         \* the HTTP status of the response, once fetch has resolved
    timerArmed,   \* the setTimeout that aborts the request is pending
    elapsed,      \* the configured timeout has passed since the request was issued
    outcome,      \* what the request returned or threw
    exchanges,    \* network exchanges started so far
    served        \* the read requests that succeeded, with the time they did

pagVars ==
    <<chain, opts, pc, allData, allIncluded, cursor, reqCursor, fetches, accum, result, perr,
      thrown, lastPage, inflight>>

cacheVars == <<cacheEnabled, maxSize, cache, now, lastOp, fresh>>

clientVars == <<ctor, client, cpc, creq, resp, timerArmed, elapsed, outcome, exchanges, served>>

twinVars == <<twin, twinGet>>

vars == <<pagVars, cacheVars, clientVars, twinVars>>

\* what an action of one component leaves alone
notPag == <<cacheVars, clientVars, twinVars>>
notCache == <<pagVars, clientVars, twinVars>>
notClient == <<pagVars, cacheEnabled, maxSize, cache, lastOp, fresh, twinVars>>

-----------------------------------------------------------------------------
(* Optional values (undefined / absent) are sequences of length 0 or 1.     *)
None == <<>>
Some(x) == <<x>>
Coalesce(o, d) == IF o = None THEN d ELSE o[1]     \* the ?? operator

Min(a, b) == IF a < b THEN a ELSE b
Max(a, b) == IF a > b THEN a ELSE b

RECURSIVE SumTo(_, _)
SumTo(f, n) == IF n = 0 THEN 0 ELSE f[n] + SumTo(f, n - 1)

RECURSIVE Flatten(_)
Flatten(ss) == IF ss = <<>> THEN <<>> ELSE Head(ss) \o Flatten(Tail(ss))

Take(s, n) == SubSeq(s, 1, Min(n, Len(s)))

-----------------------------------------------------------------------------
(* What a request returns or throws (client.ts:15-55, 81-133), and the      *)
(* request executor before its first request.                               *)
Message(text, status) == [text |-> text, status |-> status]

Ok(payload) ==
    [kind |-> "ok", payload |-> payload, name |-> "", statusCode |-> None,
     message |-> Message("", 0), retryAfter |-> None, errors |-> None]
Err(name, statusCode, message, retryAfter, errors) ==
    [kind |-> "error", payload |-> "", name |-> name, statusCode |-> statusCode,
     message |-> message, retryAfter |-> retryAfter, errors |-> errors]
NoOutcome ==
    [kind |-> "none", payload |-> "", name |-> "", statusCode |-> None,
     message |-> Message("", 0), retryAfter |-> None, errors |-> None]

NoCtor == [key |-> None, err |-> NoOutcome]

ClientIdle ==
    /\ ctor = NoCtor
    /\ client = None
    /\ cpc = "idle"
    /\ creq = None
    /\ resp = None
    /\ timerArmed = FALSE
    /\ elapsed = FALSE
    /\ outcome = NoOutcome
    /\ exchanges = 0
    /\ served = {}

-----------------------------------------------------------------------------
(* Bounds of the pagination inputs.                                         *)
MaxPages == 3        \* pages of a mock chain
MaxPageLen == 2      \* items on one page
MaxCap == 4          \* largest explicit max_results
MaxCount == 3        \* the fetch counter is exact up to here

DEFAULT_MAX_RESULTS == 500

-----------------------------------------------------------------------------
(* Items: JSON:API resources.  The item at position n of the chain has id   *)
(* n; its attributes come in three shapes (a,b,c / absent / b only).        *)
EmptyMap == [f \in {} |-> 0]

AttrsOf(n) ==
    CASE n % 3 = 1 -> [present |-> TRUE, kv |-> [f \in {"a", "b", "c"} |-> n]]
      [] n % 3 = 2 -> [present |-> FALSE, kv |-> EmptyMap]
      [] OTHER     -> [present |-> TRUE, kv |-> [f \in {"b"} |-> n]]

Item(n) ==
    [id |-> n, type |-> "profile", attributes |-> AttrsOf(n),
     relationships |-> [lists |-> n]]

IncludedObj(i) == [id |-> i, type |-> "list"]

(* The links.next of a page: absent, an unparseable URL, a URL without a    *)
(* page[cursor] parameter, or a URL whose cursor names page `to`.           *)
NoLink == [kind |-> "none", to |-> 0]
CursorLink(j) == [kind |-> "cursor", to |-> j]

LastLinks(n) ==
    {NoLink, [kind |-> "unparseable", to |-> 0], [kind |-> "nocursor", to |-> 0]}
        \cup {CursorLink(j) : j \in 1..n}

(* A chain of n pages: page i < n links to page i+1, the last page carries  *)
(* `last`; every page carries side-loaded objects iff withIncluded.  A chain *)
(* whose last page links back into the chain carries none, so that the      *)
(* accumulated side-loads stay bounded.                                     *)
MkChain(n, lens, last, withIncluded) ==
    [i \in 1..n |->
        [data |-> [k \in 1..lens[i] |-> Item(SumTo(lens, i - 1) + k)],
         next |-> IF i < n THEN CursorLink(i + 1) ELSE last,
         included |-> IF withIncluded THEN Some(<<IncludedObj(i)>>) ELSE None]]

Cyclic(c) == c[Len(c)].next.kind = "cursor"

AllChains ==
    UNION {{MkChain(n, lens, last, inc) :
                lens \in [1..n -> 0..MaxPageLen], last \in LastLinks(n), inc \in BOOLEAN}
           : n \in 1..MaxPages}

Chains == {c \in AllChains : Cyclic(c) => c[1].included = None}

(* The options a caller may pass (pagination.ts:30-41).                     *)
CompactChoices ==
    {[compact |-> None, compactFields |-> None, detailHint |-> None],
     [compact |-> None, compactFields |-> None, detailHint |-> Some("use get")],
     [compact |-> None, compactFields |-> Some(<<"a", "c">>), detailHint |-> Some("use get")],
     [compact |-> Some(FALSE), compactFields |-> Some(<<"a", "c">>), detailHint |-> Some("use get")]}

Options ==
    {[fetch_all |-> fa, max_results |-> mr, compact |-> cc.compact,
      compactFields |-> cc.compactFields, detailHint |-> cc.detailHint] :
        fa \in {None, Some(TRUE), Some(FALSE)},
        mr \in {None} \cup {Some(m) : m \in (-1)..MaxCap},
        cc \in CompactChoices}

-----------------------------------------------------------------------------
(* pagination.ts                                                            *)

\* the mock fetchFn: the page the server answers for a cursor
PageOf(c) == IF c = None THEN 1 ELSE c[1]
fetchFn(c) == IF c = None THEN chain[1] ELSE chain[c[1]]

\* a wrong parameter name: no link ever yields a cursor
extractCursor_NoParam(link) == None

\* without the try/catch, an unparseable link taken for the start of the list
extractCursor_Restart(link) ==
    IF link.kind = "cursor" THEN Some(link.to)
    ELSE IF link.kind = "unparseable" THEN Some(1) ELSE None

extractCursor(link) == IF link.kind = "cursor" THEN Some(link.to) ELSE None

\* `!== undefined` written for `!== false`
fetchAll_NotUndefined(o) == o.fetch_all # None

fetchAll(o) == o.fetch_all # Some(FALSE)
maxResults(o) == Coalesce(o.max_results, DEFAULT_MAX_RESULTS)
compact(o) == o.compact # Some(FALSE)
compactFields(o) == Coalesce(o.compactFields, <<>>)
Truthy(o) == o # None /\ o # Some("")

\* the item handed back as it came
compactItem_AsIs(item, fields) == item

compactItem(item, fields) ==
    IF ~item.attributes.present THEN item
    ELSE [item EXCEPT !.attributes =
            [present |-> TRUE,
             kv |-> [f \in {fields[i] : i \in DOMAIN fields} \cap DOMAIN item.attributes.kv
                        |-> item.attributes.kv[f]]]]

\* the side-loads kept whenever there are any
includedOf_Always(incl, o) == IF Len(incl) > 0 THEN Some(incl) ELSE None

\* pagination.ts:116, 166: the `included` of the result
includedOf(incl, o) == IF ~compact(o) /\ Len(incl) > 0 THEN Some(incl) ELSE None

\* the result object built at pagination.ts:110-129 and again at 160-179
BuildResult(data, incl, trunc, o) ==
    LET doCompact == compact(o) /\ Len(compactFields(o)) > 0 IN
    [data |-> IF doCompact
              THEN [i \in DOMAIN data |-> compactItem(data[i], compactFields(o))]
              ELSE data,
     included |-> includedOf(incl, o),
     meta |-> [total |-> Len(data), fetched |-> Len(data),
               truncated |-> trunc, compact |-> doCompact],
     hint |-> IF compact(o) /\ Truthy(o.detailHint) THEN o.detailHint ELSE None]

\* one more fetchFn call: counted exactly up to MaxCount; past it the counter
\* alternates between MaxCount + 1 and MaxCount, so that a further call still
\* changes the state
Bump(n) == IF n <= MaxCount THEN n + 1 ELSE MaxCount

\* the flag set only when items were trimmed
truncatedOf_TrimOnly(len, m, cur) == len > m

\* pagination.ts:150-157: the flag is set when the count passed the cap or a
\* cursor is left
truncatedOf(len, m, cur) == len > m \/ cur # None

\* pagination.ts:150-179: the loop has ended with `data` accumulated and `cur`
\* the cursor left over.  `allData.length = maxResults` throws a RangeError
\* when maxResults is negative.
Finish(data, incl, cur) ==
    LET m == maxResults(opts) IN
    /\ cursor' = cur
    /\ reqCursor' = None
    /\ allIncluded' = incl
    /\ fetches' = fetches
    /\ inflight' = inflight - 1
    /\ accum' = data
    /\ IF Len(data) > m /\ m < 0
       THEN /\ pc' = "failed"
            /\ perr' = Some("RangeError")
            /\ allData' = data
            /\ result' = None
       ELSE /\ pc' = "done"
            /\ perr' = None
            /\ allData' = IF Len(data) > m THEN Take(data, m) ELSE data
            /\ result' = Some(BuildResult(allData', incl,
                                          truncatedOf(Len(data), m, cur), opts))

\* fetchFn called without the cursor
Continue_NoCursor(data, incl, cur) ==
    IF cur # None /\ Len(data) < maxResults(opts)
    THEN /\ pc' = "await_next"
         /\ allData' = data
         /\ allIncluded' = incl
         /\ cursor' = cur
         /\ reqCursor' = None
         /\ fetches' = Bump(fetches)
         /\ inflight' = (inflight - 1) + 1
         /\ UNCHANGED <<accum, result, perr>>
    ELSE Finish(data, incl, cur)

\* `<=` written for `<` in the loop test
Continue_AtCap(data, incl, cur) ==
    IF cur # None /\ Len(data) <= maxResults(opts)
    THEN /\ pc' = "await_next"
         /\ allData' = data
         /\ allIncluded' = incl
         /\ cursor' = cur
         /\ reqCursor' = cur
         /\ fetches' = Bump(fetches)
         /\ inflight' = (inflight - 1) + 1
         /\ UNCHANGED <<accum, result, perr>>
    ELSE Finish(data, incl, cur)

\* pagination.ts:135-136: the loop test, then either the next fetch is issued
\* or the loop ends
Continue(data, incl, cur) ==
    IF cur # None /\ Len(data) < maxResults(opts)
    THEN /\ pc' = "await_next"
         /\ allData' = data
         /\ allIncluded' = incl
         /\ cursor' = cur
         /\ reqCursor' = cur
         /\ fetches' = Bump(fetches)
         /\ inflight' = (inflight - 1) + 1
         /\ UNCHANGED <<accum, result, perr>>
    ELSE Finish(data, incl, cur)

\* fetchAllPages is called: options are read and the first page is requested
\* (pagination.ts:90-102)
Call(o) ==
    /\ pc = "idle"
    /\ Cyclic(chain) => o.max_results # None
    /\ opts' = o
    /\ pc' = "await_first"
    /\ reqCursor' = None
    /\ fetches' = Bump(fetches)
    /\ inflight' = inflight + 1
    /\ UNCHANGED <<chain, allData, allIncluded, cursor, accum, result, perr, thrown,
                   lastPage, notPag>>

\* the first page arrives (pagination.ts:102-133)
RecvFirst ==
    /\ pc = "await_first"
    /\ LET firstPage == fetchFn(reqCursor)
           data == allData \o firstPage.data
           incl == allIncluded \o Coalesce(firstPage.included, <<>>)
       IN IF ~fetchAll(opts) \/ firstPage.next.kind = "none"
          THEN /\ pc' = "done"
               /\ allData' = data
               /\ allIncluded' = incl
               /\ reqCursor' = None
               /\ inflight' = inflight - 1
               /\ accum' = data
               /\ result' = Some(BuildResult(data, incl, FALSE, opts))
               /\ UNCHANGED <<cursor, fetches, perr>>
          ELSE Continue(data, incl, extractCursor(firstPage.next))
    /\ lastPage' = PageOf(reqCursor)
    /\ UNCHANGED <<chain, opts, thrown, notPag>>

\* a follow-up page arrives (pagination.ts:136-148)
RecvNext ==
    /\ pc = "await_next"
    /\ LET page == fetchFn(reqCursor)
           data == allData \o page.data
           incl == allIncluded \o Coalesce(page.included, <<>>)
       IN Continue(data, incl, extractCursor(page.next))
    /\ lastPage' = PageOf(reqCursor)
    /\ UNCHANGED <<chain, opts, thrown, notPag>>

\* the awaited fetchFn rejects: the rejection leaves fetchAllPages as it is
PageErrors == {"RateLimit", "Timeout"}

\* a catch around the await that issues the same fetch again
FetchFails_Retry(e) ==
    /\ pc \in {"await_first", "await_next"}
    /\ thrown' = Some([err |-> e, fetches |-> fetches])
    /\ fetches' = Bump(fetches)
    /\ UNCHANGED <<chain, opts, pc, allData, allIncluded, cursor, reqCursor, accum, result,
                   perr, lastPage, inflight, notPag>>

FetchFails(e) ==
    /\ pc \in {"await_first", "await_next"}
    /\ pc' = "failed"
    /\ perr' = Some(e)
    /\ thrown' = Some([err |-> e, fetches |-> fetches])
    /\ reqCursor' = None
    /\ inflight' = inflight - 1
    /\ UNCHANGED <<chain, opts, allData, allIncluded, cursor, fetches, accum, result,
                   lastPage, notPag>>

PagIdle ==
    /\ opts = None
    /\ pc = "idle"
    /\ allData = <<>>
    /\ allIncluded = <<>>
    /\ cursor = None
    /\ reqCursor = None
    /\ fetches = 0
    /\ accum = <<>>
    /\ result = None
    /\ perr = None
    /\ thrown = None
    /\ lastPage = 0
    /\ inflight = 0

-----------------------------------------------------------------------------
(* cache.ts                                                                 *)

(* Bounds of the cache model.                                               *)
MaxCacheSize == 2    \* largest configured maxSize of CacheSpec
MaxClock == 2        \* the clock stops after this many shortest TTLs
MaxEvictSize == 6    \* largest configured maxSize of EvictSpec

(* A cache key is `${method}:${url}:${paramStr}` (cache.ts:59-62); the url is   *)
(* kept as its sequence of path segments, which is what the substring tests *)
(* of getCacheType and the patterns of invalidateCache look at.             *)
Stringify(params) ==
    IF params = None THEN <<>>
    ELSE <<"{">> \o SelectSeq(params[1], LAMBDA kv : kv[2] # "undefined") \o <<"}">>

generateCacheKey(method, url, params) ==
    [method |-> method, url |-> url, paramStr |-> Stringify(params)]

KeyIncludes(key, seg) == \E i \in DOMAIN key.url : key.url[i] = seg

CacheTypes ==
    {"metrics", "campaigns", "flows", "templates", "lists", "segments",
     "profiles", "tags", "default"}

getCacheType(key) ==
    CASE KeyIncludes(key, "/metrics")   -> "metrics"
      [] KeyIncludes(key, "/campaigns") -> "campaigns"
      [] KeyIncludes(key, "/flows")     -> "flows"
      [] KeyIncludes(key, "/templates") -> "templates"
      [] KeyIncludes(key, "/lists")     -> "lists"
      [] KeyIncludes(key, "/segments")  -> "segments"
      [] KeyIncludes(key, "/profiles")  -> "profiles"
      [] KeyIncludes(key, "/tags")      -> "tags"
      [] OTHER                          -> "default"

ttlSeconds(type) ==
    CASE type = "metrics"   -> 3600
      [] type = "campaigns" -> 1800
      [] type = "flows"     -> 1800
      [] type = "templates" -> 3600
      [] type = "lists"     -> 900
      [] type = "segments"  -> 900
      [] type = "profiles"  -> 300
      [] type = "tags"      -> 3600
      [] OTHER              -> 600

getTtlMs(type) == ttlSeconds(type) * 1000

isCacheEnabled == cacheEnabled

(* The Map.                                                                 *)
Keys(c) == {c[i].key : i \in DOMAIN c}
Has(c, k) == k \in Keys(c)
Idx(c, k) == CHOOSE i \in DOMAIN c : c[i].key = k
Entry(c, k) == c[Idx(c, k)].e
Delete(c, k) == SelectSeq(c, LAMBDA x : x.key # k)
DeleteAll(c, ks) == SelectSeq(c, LAMBDA x : x.key \notin ks)
\* Map.set: an existing key keeps its place, a new one goes last
Put(c, k, e) ==
    IF Has(c, k) THEN [c EXCEPT ![Idx(c, k)] = [key |-> k, e |-> e]]
    ELSE Append(c, [key |-> k, e |-> e])

\* the operation record of a step
Op(name, key, ok, val, evicted, kept) ==
    [op |-> name, key |-> key, ok |-> ok, val |-> val, evicted |-> evicted, kept |-> kept]
NoKey == [method |-> "", url |-> <<>>, paramStr |-> <<>>]

\* cache.ts:72: the entry is stale
Expired(e, t) == t > e.expiresAt

\* `>` written for `>=`
AtMaxSize_Strict(c) == Len(c) > maxSize

\* cache.ts:104: the cache is full
AtMaxSize(c) == Len(c) >= maxSize

\* cache.ts:129: Math.max(1, Math.ceil(entries.length * 0.2)); in floating
\* point the ceiling equals the exact one for every length below 200
ToRemove(n) == Max(1, (n * 2 + 9) \div 10)

\* the comparator written as b - a: most recently accessed first
Rank_NewestFirst(c, i) ==
    Cardinality({j \in DOMAIN c :
        \/ c[j].e.lastAccessed > c[i].e.lastAccessed
        \/ c[j].e.lastAccessed = c[i].e.lastAccessed /\ j < i})

\* cache.ts:125-126: the position of entry i in the stable sort by lastAccessed
Rank(c, i) ==
    Cardinality({j \in DOMAIN c :
        \/ c[j].e.lastAccessed < c[i].e.lastAccessed
        \/ c[j].e.lastAccessed = c[i].e.lastAccessed /\ j < i})

\* cache.ts:124-134: the keys evictOldestItems deletes
EvictedKeys(c) == {c[i].key : i \in {j \in DOMAIN c : Rank(c, j) < ToRemove(Len(c))}}

evictOldestItems(c) == DeleteAll(c, EvictedKeys(c))

\* cache.ts:67-78, on the Map c at time t: <<found, Map afterwards>>
hasCacheAt(c, k, t) ==
    IF ~isCacheEnabled THEN <<FALSE, c>>
    ELSE IF ~Has(c, k) THEN <<FALSE, c>>
    ELSE IF Expired(Entry(c, k), t) THEN <<FALSE, Delete(c, k)>>
    ELSE <<TRUE, c>>

HasCache(k) ==
    LET r == hasCacheAt(cache, k, now) IN
    /\ cache' = r[2]
    /\ lastOp' = Op("has", k, r[1], None, <<>>, <<>>)
    /\ fresh' = None
    /\ UNCHANGED <<cacheEnabled, maxSize, now, notCache>>

\* cache.ts:83-91 on the Map c at time t: hit or miss, the value, the Map
\* afterwards
getCache(c, k, t) ==
    LET r == hasCacheAt(c, k, t) IN
    IF ~r[1]
    THEN [ok |-> FALSE, val |-> None, map |-> r[2]]
    ELSE [ok |-> TRUE, val |-> Some(Entry(r[2], k).value),
          map |-> Put(r[2], k, [Entry(r[2], k) EXCEPT !.lastAccessed = t])]

\* cache.ts:83-91
GetCache(k) ==
    LET g == getCache(cache, k, now) IN
    /\ cache' = g.map
    /\ lastOp' = Op("get", k, g.ok, g.val, <<>>, <<>>)
    /\ fresh' = None
    /\ UNCHANGED <<cacheEnabled, maxSize, now, notCache>>

\* cache.ts:96-119 on the Map c at time t: the Map afterwards
setCache(c, k, v, t) ==
    IF ~isCacheEnabled \/ v = None THEN c
    ELSE LET type == getCacheType(k)
             kept == IF AtMaxSize(c) THEN evictOldestItems(c) ELSE c
         IN Put(kept, k, [value |-> v[1], type |-> type, createdAt |-> t,
                          lastAccessed |-> t, expiresAt |-> t + getTtlMs(type)])

\* cache.ts:96-119; v = None stands for null / undefined
SetCache(k, v) ==
    /\ IF ~isCacheEnabled \/ v = None
       THEN /\ lastOp' = Op("set", k, FALSE, v, <<>>, <<>>)
            /\ fresh' = None
            /\ UNCHANGED cache
       ELSE LET type == getCacheType(k)
                ttlMs == getTtlMs(type)
                kept == IF AtMaxSize(cache) THEN evictOldestItems(cache) ELSE cache
                gone == IF AtMaxSize(cache)
                        THEN SelectSeq(cache, LAMBDA x : x.key \in EvictedKeys(cache))
                        ELSE <<>>
            IN /\ cache' = setCache(cache, k, v, now)
               /\ lastOp' = Op("set", k, TRUE, v, gone, kept)
               /\ fresh' = Some([key |-> k, val |-> v[1]])
    /\ UNCHANGED <<cacheEnabled, maxSize, now, notCache>>

\* `>=` written for `>`
Swept_Inclusive(e, t) == t >= e.expiresAt

\* cache.ts:144: the sweep deletes the entry
Swept(e, t) == t > e.expiresAt

\* cache.ts:139-153, the sweep that initCache schedules every 60 s
ClearExpiredCache ==
    /\ cache' = SelectSeq(cache, LAMBDA x : ~Swept(x.e, now))
    /\ lastOp' = Op("sweep", NoKey, TRUE, None,
                    SelectSeq(cache, LAMBDA x : Swept(x.e, now)), <<>>)
    /\ fresh' = None
    /\ UNCHANGED <<cacheEnabled, maxSize, now, notCache>>

\* cache.ts:158-161
ClearCache ==
    /\ cache' = <<>>
    /\ lastOp' = Op("clear", NoKey, TRUE, None, <<>>, <<>>)
    /\ fresh' = None
    /\ UNCHANGED <<cacheEnabled, maxSize, now, notCache>>

\* cache.ts:166-179
ClearCacheByType(type) ==
    /\ cache' = SelectSeq(cache, LAMBDA x : x.e.type # type)
    /\ lastOp' = Op("clearType", NoKey, TRUE, None, <<>>, <<>>)
    /\ fresh' = None
    /\ UNCHANGED <<cacheEnabled, maxSize, now, notCache>>

(* invalidateCache takes a string or a RegExp (cache.ts:184-185).  A pattern *)
(* is the literal text of one path segment; a string becomes a RegExp       *)
(* without flags, a RegExp may carry the g flag.  The text of a key is      *)
(* `${method}:` followed by its segments, a segment that does not start     *)
(* with "/" standing for an identifier with its slash.                      *)
TextLen(seg) ==
    CASE seg = "/api"      -> 4
      [] seg = "/profiles" -> 9
      [] seg = "/lists"    -> 6
      [] seg = "/events"   -> 7
      [] seg = "GET"       -> 3
      [] seg = "POST"      -> 4
      [] OTHER             -> 3

RECURSIVE Offset(_, _)
\* where segment i of the key starts in the key's text
Offset(key, i) ==
    IF i = 1 THEN TextLen(key.method) + 1
    ELSE Offset(key, i - 1) + TextLen(key.url[i - 1])

\* RegExp.prototype.test with lastIndex = li: <<result, lastIndex afterwards>>.
\* Without the g flag the search starts at 0 and lastIndex stays 0; with it
\* the search starts at lastIndex, which moves behind the match, or back to 0
\* when nothing is found.
RegexTest(pattern, key, li) ==
    LET from == IF pattern.global THEN li ELSE 0
        hits == {i \in DOMAIN key.url :
                    key.url[i] = pattern.source /\ Offset(key, i) >= from}
        first == CHOOSE i \in hits : \A j \in hits : i <= j
    IN IF hits = {} THEN <<FALSE, 0>>
       ELSE <<TRUE, IF pattern.global
                    THEN Offset(key, first) + TextLen(pattern.source) ELSE 0>>

RECURSIVE invalidateCache(_, _, _)
\* cache.ts:188-193: the keys are tested in insertion order with one RegExp
invalidateCache(c, pattern, li) ==
    IF c = <<>> THEN <<>>
    ELSE LET t == RegexTest(pattern, Head(c).key, li)
         IN (IF t[1] THEN <<>> ELSE <<Head(c)>>) \o invalidateCache(Tail(c), pattern, t[2])

\* cache.ts:184-198
InvalidateCache(pattern) ==
    /\ cache' = invalidateCache(cache, pattern, 0)
    /\ lastOp' = Op("invalidate", NoKey, TRUE, None, <<>>, <<>>)
    /\ fresh' = None
    /\ UNCHANGED <<cacheEnabled, maxSize, now, notCache>>

\* time passes: the clock moves on by the TTL of some resource type
Tick(type) ==
    /\ now + getTtlMs(type) <= MaxClock * getTtlMs("profiles")
    /\ now' = now + getTtlMs(type)
    /\ lastOp' = Op("tick", NoKey, TRUE, None, <<>>, <<>>)
    /\ UNCHANGED <<cacheEnabled, maxSize, cache, fresh, notCache>>

(* The requests whose responses are cached.                                 *)
CacheKeys ==
    {generateCacheKey("GET", <<"/api", "/profiles">>, None),
     generateCacheKey("GET", <<"/api", "/lists", "L1", "/profiles">>, None),
     generateCacheKey("GET", <<"/api", "/events">>, Some(<<<<"sort", "-datetime">>>>))}
CacheValues == {Some("v1"), Some("v2"), None}
Patterns == {[source |-> src, global |-> g] : src \in {"/profiles", "/events"}, g \in BOOLEAN}
ClearTypes == {"profiles", "lists", "metrics"}

CacheIdle ==
    /\ cacheEnabled = TRUE
    /\ maxSize = 1
    /\ cache = <<>>
    /\ now = 0
    /\ lastOp = Op("init", NoKey, TRUE, None, <<>>, <<>>)
    /\ fresh = None
    /\ twin = <<>>
    /\ twinGet = None

CacheInit ==
    /\ cacheEnabled \in BOOLEAN
    /\ maxSize \in 1..MaxCacheSize
    /\ cache = <<>>
    /\ now = 0
    /\ lastOp = Op("init", NoKey, TRUE, None, <<>>, <<>>)
    /\ fresh = None
    /\ twin = <<>>
    /\ twinGet = None
    /\ chain = <<>>
    /\ PagIdle
    /\ ClientIdle

CacheNext ==
    \/ \E k \in CacheKeys, v \in CacheValues : SetCache(k, v)
    \/ \E k \in CacheKeys : GetCache(k)
    \/ \E k \in CacheKeys : HasCache(k)
    \/ ClearExpiredCache
    \/ ClearCache
    \/ \E t \in ClearTypes : ClearCacheByType(t)
    \/ \E p \in Patterns : InvalidateCache(p)
    \/ \E t \in CacheTypes : Tick(t)

CacheSpec == CacheInit /\ [][CacheNext]_vars

(* Two runs of the cache side by side: `cache` and `twin` receive the same  *)
(* setCache, getCache and invalidation calls at the same instants; the      *)
(* sweep runs on `cache` only.                                               *)
TwinSet(k, v) ==
    /\ cache' = setCache(cache, k, v, now)
    /\ twin' = setCache(twin, k, v, now)
    /\ lastOp' = Op("set", k, TRUE, v, <<>>, <<>>)
    /\ twinGet' = None
    /\ fresh' = None
    /\ UNCHANGED <<cacheEnabled, maxSize, now, pagVars, clientVars>>

TwinGet(k) ==
    LET g == getCache(cache, k, now)
        h == getCache(twin, k, now)
    IN /\ cache' = g.map
       /\ twin' = h.map
       /\ lastOp' = Op("get", k, g.ok, g.val, <<>>, <<>>)
       /\ twinGet' = Some([ok |-> h.ok, val |-> h.val])
       /\ fresh' = None
       /\ UNCHANGED <<cacheEnabled, maxSize, now, pagVars, clientVars>>

TwinClearByType(type) ==
    /\ cache' = SelectSeq(cache, LAMBDA x : x.e.type # type)
    /\ twin' = SelectSeq(twin, LAMBDA x : x.e.type # type)
    /\ lastOp' = Op("clearType", NoKey, TRUE, None, <<>>, <<>>)
    /\ twinGet' = None
    /\ fresh' = None
    /\ UNCHANGED <<cacheEnabled, maxSize, now, pagVars, clientVars>>

TwinInvalidate(pattern) ==
    /\ cache' = invalidateCache(cache, pattern, 0)
    /\ twin' = invalidateCache(twin, pattern, 0)
    /\ lastOp' = Op("invalidate", NoKey, TRUE, None, <<>>, <<>>)
    /\ twinGet' = None
    /\ fresh' = None
    /\ UNCHANGED <<cacheEnabled, maxSize, now, pagVars, clientVars>>

\* the sweep of the first run; the second run has none
TwinSweep == ClearExpiredCache

TwinTick(type) == Tick(type)

TwinInit ==
    /\ cacheEnabled = TRUE
    /\ maxSize \in 1..MaxCacheSize
    /\ cache = <<>>
    /\ now = 0
    /\ lastOp = Op("init", NoKey, TRUE, None, <<>>, <<>>)
    /\ twin = <<>>
    /\ twinGet = None
    /\ fresh = None
    /\ chain = <<>>
    /\ PagIdle
    /\ ClientIdle

TwinNext ==
    \/ \E k \in CacheKeys, v \in CacheValues : TwinSet(k, v)
    \/ \E k \in CacheKeys : TwinGet(k)
    \/ \E t \in ClearTypes : TwinClearByType(t)
    \/ \E p \in Patterns : TwinInvalidate(p)
    \/ TwinSweep
    \/ \E t \in CacheTypes : TwinTick(t)

TwinSpec == TwinInit /\ [][TwinNext]_vars

(* Eviction on its own: the cache starts full, with maxSize entries that    *)
(* were created at time 0 and last read at time 0 or 1; at time 2 entries   *)
(* are read and then one setCache is applied.                               *)
EvictIds == <<"p1", "p2", "p3", "p4", "p5", "p6", "p7", "p8">>
EvictKey(i) == generateCacheKey("GET", <<"/api", "/profiles", EvictIds[i]>>, None)

EvictInit ==
    /\ cacheEnabled = TRUE
    /\ maxSize \in 1..MaxEvictSize
    /\ \E la \in [1..maxSize -> {0, 1}] :
          cache = [i \in 1..maxSize |->
                     [key |-> EvictKey(i),
                      e |-> [value |-> "v1", type |-> getCacheType(EvictKey(i)),
                             createdAt |-> 0, lastAccessed |-> la[i],
                             expiresAt |-> getTtlMs(getCacheType(EvictKey(i)))]]]
    /\ now = 2
    /\ lastOp = Op("init", NoKey, TRUE, None, <<>>, <<>>)
    /\ fresh = None
    /\ twin = <<>>
    /\ twinGet = None
    /\ chain = <<>>
    /\ PagIdle
    /\ ClientIdle

EvictGet(k) == lastOp.op # "set" /\ GetCache(k)
EvictSet(k, v) == lastOp.op # "set" /\ SetCache(k, v)

EvictNext ==
    \/ \E i \in 1..(maxSize + 1) : EvictGet(EvictKey(i))
    \/ \E i \in 1..(maxSize + 1) : EvictSet(EvictKey(i), Some("v2"))

EvictSpec == EvictInit /\ [][EvictNext]_vars

-----------------------------------------------------------------------------
(* client.ts                                                                *)

MaxExchanges == 2    \* requests issued in one run of ClientSpec

\* what fetch can resolve with
Statuses == 200..599
ResponseOk(status) == status >= 200 /\ status <= 299

\* the body of an error response: not JSON, JSON without an errors list, or
\* JSON with one (client.ts:139-146)
ErrorBodies == {"unparseable", "noerrors", "errors"}
BodyErrors(body) == IF body = "errors" THEN Some(<<"e1", "e2">>) ELSE None
\* the Retry-After header of the response
RetryAfterHeaders == {None, Some(30)}

\* client.ts:15-55: the error classes and the statusCode each one sets
KlaviyoError(message, statusCode, errors) ==
    Err("KlaviyoError", statusCode, message, None, errors)
KlaviyoAuthError(message) == Err("KlaviyoAuthError", Some(401), message, None, None)
KlaviyoNotFoundError(message) == Err("KlaviyoNotFoundError", Some(404), message, None, None)
KlaviyoRateLimitError(message, retryAfter) ==
    Err("KlaviyoRateLimitError", Some(429), message, retryAfter, None)
KlaviyoValidationError(message, errors) ==
    Err("KlaviyoValidationError", Some(400), message, None, errors)

\* credentials, as sequences of characters: empty, well formed, with another
\* prefix, shorter than the prefix, and with the prefix not at the start
ApiKeys ==
    {<<>>, <<"p", "k", "_", "1">>, <<"s", "k", "_", "1">>, <<"p", "k">>,
     <<"x", "p", "k", "_">>}
\* options?.timeout
TimeoutOptions == {None, Some(5000)}

\* String.prototype.startsWith
StartsWith(str, prefix) ==
    Len(str) >= Len(prefix) /\ SubSeq(str, 1, Len(prefix)) = prefix

\* the prefix test left out
constructor_NoPrefixTest(apiKey, timeout) ==
    IF apiKey = <<>>
    THEN [client |-> None, err |-> KlaviyoAuthError(Message("API key is required", 0))]
    ELSE [client |-> Some([apiKey |-> apiKey, revision |-> "2025-01-15",
                           timeout |-> Coalesce(timeout, 30000)]),
          err |-> NoOutcome]

\* client.ts:69-79: the instance constructed, or the error thrown
constructor(apiKey, timeout) ==
    IF apiKey = <<>>
    THEN [client |-> None, err |-> KlaviyoAuthError(Message("API key is required", 0))]
    ELSE IF ~StartsWith(apiKey, <<"p", "k", "_">>)
    THEN [client |-> None, err |-> KlaviyoAuthError(Message("Invalid API key format", 0))]
    ELSE [client |-> Some([apiKey |-> apiKey, revision |-> "2025-01-15",
                           timeout |-> Coalesce(timeout, 30000)]),
          err |-> NoOutcome]

\* new KlaviyoClient(apiKey, {timeout}), once, when the server starts
Construct(apiKey, timeout) ==
    /\ ctor.key = None
    /\ ctor' = [key |-> Some(apiKey), err |-> constructor(apiKey, timeout).err]
    /\ client' = constructor(apiKey, timeout).client
    /\ UNCHANGED <<cpc, creq, resp, timerArmed, elapsed, outcome, exchanges, served,
                   now, notClient>>

\* `=== 200` written for `=== 204`
NoContent_200(status) == status = 200

\* client.ts:118
NoContent(status) == status = 204

\* what fetch and response.json() reject with: not Errors of the taxonomy
RawErrors == {"TypeError", "SyntaxError", "AbortError"}
RawError(name) == Err(name, None, Message("raw", 0), None, None)

\* client.ts:15-55: KlaviyoError and its subclasses
KlaviyoErrors ==
    {"KlaviyoError", "KlaviyoAuthError", "KlaviyoNotFoundError", "KlaviyoRateLimitError",
     "KlaviyoValidationError"}

\* the `instanceof KlaviyoError` test left out
requestCatch_Rewrap(error) ==
    IF error.name = "AbortError"
    THEN KlaviyoError(Message("Request timeout", 0), Some(408), None)
    ELSE KlaviyoError(Message("Request failed", 0), None, None)

\* client.ts:123-132: what the catch block of request() throws for `error`
requestCatch(error) ==
    IF error.name \in KlaviyoErrors THEN error
    ELSE IF error.name = "AbortError"
    THEN KlaviyoError(Message("Request timeout", 0), Some(408), None)
    ELSE KlaviyoError(Message("Request failed", 0), None, None)

\* the try / catch around the parse of the body left out
handleErrorResponse_NoCatch(status, body, retryAfter) ==
    LET errorMessage == IF body = "errors" THEN Message("details", 0)
                        ELSE Message("API error", status)
    IN IF body = "unparseable" THEN RawError("SyntaxError")
       ELSE CASE status \in {401, 403} -> KlaviyoAuthError(errorMessage)
              [] status = 404 -> KlaviyoNotFoundError(errorMessage)
              [] status = 429 -> KlaviyoRateLimitError(errorMessage, retryAfter)
              [] status \in {400, 422} -> KlaviyoValidationError(errorMessage, BodyErrors(body))
              [] OTHER -> KlaviyoError(errorMessage, Some(status), BodyErrors(body))

\* the `case 403:` label left out
handleErrorResponse_No403(status, body, retryAfter) ==
    LET errorMessage == IF body = "errors" THEN Message("details", 0)
                        ELSE Message("API error", status)
    IN CASE status = 401 -> KlaviyoAuthError(errorMessage)
         [] status = 404 -> KlaviyoNotFoundError(errorMessage)
         [] status = 429 -> KlaviyoRateLimitError(errorMessage, retryAfter)
         [] status \in {400, 422} -> KlaviyoValidationError(errorMessage, BodyErrors(body))
         [] OTHER -> KlaviyoError(errorMessage, Some(status), BodyErrors(body))

\* client.ts:135-166: what handleErrorResponse throws
handleErrorResponse(status, body, retryAfter) ==
    LET errorMessage == IF body = "errors" THEN Message("details", 0)
                        ELSE Message("API error", status)
    IN CASE status \in {401, 403} -> KlaviyoAuthError(errorMessage)
         [] status = 404 -> KlaviyoNotFoundError(errorMessage)
         [] status = 429 -> KlaviyoRateLimitError(errorMessage, retryAfter)
         [] status \in {400, 422} -> KlaviyoValidationError(errorMessage, BodyErrors(body))
         [] OTHER -> KlaviyoError(errorMessage, Some(status), BodyErrors(body))

\* the requests the tool layer issues
Requests ==
    {[method |-> "GET", path |-> <<"/api", "/profiles">>, params |-> None],
     [method |-> "GET", path |-> <<"/api", "/events">>,
      params |-> Some(<<<<"sort", "-datetime">>>>)],
     [method |-> "POST", path |-> <<"/api", "/profiles">>, params |-> None]}

KeyOf(r) == generateCacheKey(r.method, r.path, r.params)

\* client.ts:81-109: request() builds the URL, arms the timeout and calls fetch
Request(r) ==
    /\ client # None
    /\ cpc \in {"idle", "done"}
    /\ exchanges < MaxExchanges
    /\ cpc' = "fetching"
    /\ creq' = Some(r)
    /\ resp' = None
    /\ timerArmed' = TRUE
    /\ elapsed' = FALSE
    /\ outcome' = NoOutcome
    /\ exchanges' = exchanges + 1
    /\ UNCHANGED <<ctor, client, served, now, notClient>>

\* the request has returned a payload
Succeed(payload) ==
    /\ cpc' = "done"
    /\ outcome' = Ok(payload)
    /\ served' = IF creq[1].method = "GET"
                 THEN {x \in served : x.key # KeyOf(creq[1])}
                          \cup {[key |-> KeyOf(creq[1]), at |-> now]}
                 ELSE served

\* client.ts:109-120: fetch resolves with a response
FetchResolves(status) ==
    /\ cpc = "fetching"
    /\ resp' = Some(status)
    /\ timerArmed' = FALSE
    /\ IF ~ResponseOk(status)
       THEN cpc' = "errbody" /\ UNCHANGED <<outcome, served>>
       ELSE IF NoContent(status)
       THEN Succeed("{}")
       ELSE cpc' = "body" /\ UNCHANGED <<outcome, served>>
    /\ UNCHANGED <<ctor, client, creq, elapsed, exchanges, now, notClient>>

\* client.ts:139-165, 125-127: the error body has been read (or could not be
\* parsed); the classified error is thrown and re-thrown by request()
ErrorBodyRead(body, retryAfter) ==
    /\ cpc = "errbody"
    /\ cpc' = "done"
    /\ outcome' = requestCatch(handleErrorResponse(resp[1], body, retryAfter))
    /\ UNCHANGED <<ctor, client, creq, resp, timerArmed, elapsed, exchanges, served, now,
                   notClient>>

\* what response.json() can yield for a 2xx response
JsonBodies == {"object", "null"}

\* client.ts:122: the body of a 2xx response has been decoded
BodyRead(json) ==
    /\ cpc = "body"
    /\ Succeed(json)
    /\ UNCHANGED <<ctor, client, creq, resp, timerArmed, elapsed, exchanges, now, notClient>>

\* client.ts:122-131: response.json() rejects on a 2xx response
BodyUnreadable ==
    /\ cpc = "body"
    /\ cpc' = "done"
    /\ outcome' = requestCatch(RawError("SyntaxError"))
    /\ UNCHANGED <<ctor, client, creq, resp, timerArmed, elapsed, exchanges, served, now,
                   notClient>>

\* client.ts:123-131: fetch rejects (DNS, connection refused, ...)
FetchRejects ==
    /\ cpc = "fetching"
    /\ cpc' = "done"
    /\ timerArmed' = FALSE
    /\ outcome' = requestCatch(RawError("TypeError"))
    /\ UNCHANGED <<ctor, client, creq, resp, elapsed, exchanges, served, now, notClient>>

\* client.ts:96, 128-130: the timer fires, fetch is aborted with an AbortError
TimeoutFires ==
    /\ cpc = "fetching"
    /\ timerArmed
    /\ cpc' = "done"
    /\ timerArmed' = FALSE
    /\ elapsed' = TRUE
    /\ outcome' = requestCatch(RawError("AbortError"))
    /\ UNCHANGED <<ctor, client, creq, resp, exchanges, served, now, notClient>>

\* client.ts:111: the timer was cleared when fetch resolved, so the timeout
\* passes while the body is still being read and nothing is aborted
TimeoutPasses ==
    /\ cpc \in {"body", "errbody"}
    /\ ~timerArmed
    /\ ~elapsed
    /\ elapsed' = TRUE
    /\ UNCHANGED <<ctor, client, cpc, creq, resp, timerArmed, outcome, exchanges, served, now, notClient>>

\* caching is enabled, as it is unless the environment turns it off
ClientInit ==
    /\ ClientIdle
    /\ cacheEnabled = TRUE
    /\ maxSize = 1
    /\ cache = <<>>
    /\ now = 0
    /\ lastOp = Op("init", NoKey, TRUE, None, <<>>, <<>>)
    /\ fresh = None
    /\ twin = <<>>
    /\ twinGet = None
    /\ chain = <<>>
    /\ PagIdle

ClientNext ==
    \/ \E k \in ApiKeys, t \in TimeoutOptions : Construct(k, t)
    \/ \E r \in Requests : Request(r)
    \/ \E status \in Statuses : FetchResolves(status)
    \/ \E body \in ErrorBodies, ra \in RetryAfterHeaders : ErrorBodyRead(body, ra)
    \/ \E json \in JsonBodies : BodyRead(json)
    \/ BodyUnreadable
    \/ FetchRejects
    \/ TimeoutFires
    \/ TimeoutPasses
    \/ \E t \in CacheTypes : Tick(t)

ClientSpec == ClientInit /\ [][ClientNext]_vars

-----------------------------------------------------------------------------
(* The specification of the pagination engine.                              *)
PagInit ==
    /\ chain \in Chains
    /\ PagIdle
    /\ CacheIdle
    /\ ClientIdle

PagNext ==
    \/ \E o \in Options : Call(o)
    \/ RecvFirst
    \/ RecvNext
    \/ \E e \in PageErrors : FetchFails(e)

PagSpec == PagInit /\ [][PagNext]_vars

\* The calls in which no page fetch fails.  Every fetch that was issued
\* returns its page: the awaited promise of pagination.ts:102 and :136 is
\* settled by the fetch function, so the receiving steps are weakly fair.
PagLiveNext ==
    \/ \E o \in Options : Call(o)
    \/ RecvFirst
    \/ RecvNext

PagLiveSpec ==
    /\ PagInit
    /\ [][PagLiveNext]_vars
    /\ WF_vars(RecvFirst)
    /\ WF_vars(RecvNext)

-----------------------------------------------------------------------------
(* Properties of the pagination engine, checked under PagSpec.              *)

Total(c) == SumTo([i \in 1..Len(c) |-> Len(c[i].data)], Len(c))
ChainItems(c) == [n \in 1..Total(c) |-> Item(n)]
RunningCount(c, i) == SumTo([j \in 1..Len(c) |-> Len(c[j].data)], i)

\* every link of the chain is well formed and the chain ends
WellFormed(c) == c[Len(c)].next.kind = "none"

\* `data` holds the items `items`, in order; each one unchanged unless the
\* result is flagged compact, and then with id and type unchanged
SameItems(r, items) ==
    /\ Len(r.data) = Len(items)
    /\ \A i \in DOMAIN items :
          /\ r.data[i].id = items[i].id
          /\ r.data[i].type = items[i].type
          /\ ~r.meta.compact => r.data[i] = items[i]

Returned == pc = "done"
FetchAllMode == pc # "idle" /\ fetchAll(opts)
CompleteCase ==
    /\ Returned /\ FetchAllMode
    /\ WellFormed(chain)
    /\ Total(chain) <= maxResults(opts)

\* the running count reaches max_results at a page that still links onward
CapMetEarly == \E i \in 1..(Len(chain) - 1) : RunningCount(chain, i) >= maxResults(opts)

\* C1 as stated: in fetch-all mode over a well-formed finite chain whose total
\* is at most max_results, the result is the concatenation of all pages with
\* total = fetched = that count and truncated = false.  (Stated for the
\* supported caps, max_results >= 1, so that a violation is one on a supported
\* input.)
C1_Original ==
    (CompleteCase /\ maxResults(opts) >= 1) =>
        /\ SameItems(result[1], ChainItems(chain))
        /\ result[1].meta.total = Total(chain)
        /\ result[1].meta.fetched = Total(chain)
        /\ result[1].meta.truncated = FALSE

\* C1 amended: as C1, except that truncated is true exactly when the running
\* count already equals max_results at a page that still carries a next-cursor
\* (the pages after it being empty); the items and counts are complete always.
C1_Completeness ==
    CompleteCase =>
        /\ SameItems(result[1], ChainItems(chain))
        /\ result[1].meta.total = Total(chain)
        /\ result[1].meta.fetched = Total(chain)
        /\ result[1].meta.truncated = CapMetEarly

C1_Witness ==
    /\ CompleteCase
    /\ Len(chain) = 3
    /\ \A i \in 1..3 : Len(chain[i].data) >= 1
    /\ opts.max_results # None
    /\ result[1].meta.truncated = FALSE

\* C2 as stated: in fetch-all mode with max_results = m >= 1, when accumulation
\* stops with more than m items, or with m items and a next-cursor left, the
\* result holds exactly the first m accumulated items and truncated = true.
C2_Truncation ==
    (/\ Returned /\ FetchAllMode
     /\ maxResults(opts) >= 1
     /\ \/ Len(accum) > maxResults(opts)
        \/ Len(accum) = maxResults(opts) /\ cursor # None)
    => /\ SameItems(result[1], Take(accum, maxResults(opts)))
       /\ result[1].meta.truncated = TRUE

\* C3 as stated: in fetch-all mode with max_results = m >= 1 every result holds
\* at most m items.
C3_HardCap ==
    (Returned /\ FetchAllMode /\ maxResults(opts) >= 1)
        => Len(result[1].data) <= maxResults(opts)

\* C4: with fetch_all = false the fetch function is called exactly once, with
\* no cursor, and the result is the first page's items with truncated = false,
\* whatever max_results is and whether or not the first page links onward.
C4_SinglePage ==
    (pc # "idle" /\ opts.fetch_all = Some(FALSE)) =>
        /\ fetches = 1
        /\ pc # "await_next"
        /\ pc = "await_first" => reqCursor = None
        /\ pc = "done" =>
              /\ SameItems(result[1], chain[1].data)
              /\ result[1].meta.truncated = FALSE

C4_Witness ==
    /\ pc = "done" /\ opts.fetch_all = Some(FALSE)
    /\ Len(chain) >= 2
    /\ Len(chain[1].data) = 2
    /\ opts.max_results = Some(1)
    /\ Len(result[1].data) = 2

CompactionOn ==
    /\ opts.compact # Some(FALSE)
    /\ opts.compactFields # None /\ opts.compactFields[1] # <<>>

\* `c` is `orig` with its attributes restricted to the keys in `fields`
Restricted(c, orig, fields) ==
    /\ c.id = orig.id /\ c.type = orig.type /\ c.relationships = orig.relationships
    /\ c.attributes.present = orig.attributes.present
    /\ DOMAIN c.attributes.kv = DOMAIN orig.attributes.kv \cap fields
    /\ \A f \in DOMAIN c.attributes.kv : c.attributes.kv[f] = orig.attributes.kv[f]

MalformedLast ==
    lastPage # 0 /\ chain[lastPage].next.kind \in {"unparseable", "nocursor"}

C15_UnsupportedCap ==
    (/\ pc \in {"done", "failed"} /\ thrown = None
     /\ FetchAllMode /\ ~Cyclic(chain)
     /\ opts.max_results # None /\ opts.max_results[1] <= 0)
    => /\ pc = "done"
       /\ SameItems(result[1], ChainItems(chain))
       /\ result[1].meta.truncated = FALSE

\* C18: a result that carries side-loaded (included) objects is not compacted:
\* meta.compact = false and every item is as it was accumulated.
C18_IncludedNotCompacted ==
    (result # None /\ result[1].included # None) =>
        /\ result[1].meta.compact = FALSE
        /\ result[1].data = allData

\* compact = false with compactFields configured, over pages with side-loads
C18_Witness ==
    /\ pc = "done"
    /\ opts.compact = Some(FALSE) /\ opts.compactFields # None
    /\ result[1].included # None /\ Len(result[1].included[1]) = 2
    /\ Len(result[1].data) >= 1

\* C20: a follow-up fetch is issued only in the step that receives the
\* response of the fetch before it, for exactly the cursor of that page's next
\* link; the page received is the one that was asked for and its items are
\* appended to those accumulated; never is more than one fetch in flight.
C20_SequentialPaging ==
    [][/\ inflight' <= 1
       /\ pc' = "await_next" =>
             /\ pc \in {"await_first", "await_next"} /\ inflight = 1
             /\ lastPage' = PageOf(reqCursor)
             /\ chain[lastPage'].next.kind = "cursor"
             /\ reqCursor' = Some(chain[lastPage'].next.to)
             /\ allData' = allData \o chain[lastPage'].data]_vars

\* the third page has been asked for with the cursor of the second
C20_Witness ==
    /\ pc = "await_next" /\ inflight = 1
    /\ lastPage = 2 /\ reqCursor = Some(3)
    /\ fetches = 3
    /\ Len(allData) = 4

\* C21: in fetch-all mode no page fetch is in flight once the running count
\* of accumulated items has reached max_results: a follow-up fetch is in
\* flight only for an existing next-cursor and with the count below
\* max_results, and so is the first fetch for every max_results >= 1.
C21_NoFetchPastCap ==
    /\ pc = "await_next" =>
          /\ fetchAll(opts)
          /\ cursor # None /\ reqCursor = cursor
          /\ Len(allData) < maxResults(opts)
    /\ (pc = "await_first" /\ maxResults(opts) >= 1) => Len(allData) < maxResults(opts)

\* the count reached max_results on the second of three pages: the third
\* page, for which a cursor exists, was never asked for
C21_Witness ==
    /\ pc = "done" /\ FetchAllMode
    /\ Len(chain) = 3 /\ lastPage = 2 /\ fetches = 2
    /\ cursor = Some(3)
    /\ Len(accum) = maxResults(opts)

\* C22: provided every page fetch returns, every call with max_results >= 1
\* eventually returns a result, whatever the chain of pages.
C22_Termination ==
    (pc = "await_first" /\ maxResults(opts) >= 1) ~> (pc = "done" /\ result # None)

\* no next link of the chain is malformed
LinksWellFormed(c) == c[Len(c)].next.kind \in {"none", "cursor"}

\* C23: in fetch-all mode over a chain whose next links are well formed, a
\* result with truncated = false holds every item of every page of the
\* chain, in page order.
C23_TruncationSound ==
    (Returned /\ FetchAllMode /\ LinksWellFormed(chain)
        /\ result[1].meta.truncated = FALSE)
        => SameItems(result[1], ChainItems(chain))

\* three pages were fetched up to the end of the chain, the last item
\* filling the cap exactly, and the result is not flagged
C23_Witness ==
    /\ Returned /\ FetchAllMode
    /\ WellFormed(chain) /\ Len(chain) = 3 /\ lastPage = 3
    /\ Total(chain) = maxResults(opts)
    /\ result[1].meta.truncated = FALSE

\* C24: whenever the result is not compacted (meta.compact = false) and a
\* fetched page carried side-loaded objects, the result's included list holds
\* the side-loaded objects of all fetched pages, in page order.
C24_IncludedKept ==
    (Returned /\ ~result[1].meta.compact /\ allIncluded # <<>>)
        => result[1].included = Some(allIncluded)

\* C25: the result carries the detail hint exactly when compaction was
\* applied to it (meta.compact = true) and the caller supplied a non-empty
\* detailHint, and then it is the caller's hint.
C25_DetailHint ==
    Returned =>
        /\ result[1].hint # None <=> (result[1].meta.compact /\ Truthy(opts.detailHint))
        /\ result[1].hint # None => result[1].hint = opts.detailHint

-----------------------------------------------------------------------------
(* Properties of the response cache, checked under CacheSpec and EvictSpec. *)

\* the step is a getCache / a lookup, of key lastOp'.key
GetStep == lastOp'.op = "get"
LookupStep == lastOp'.op \in {"get", "has"}

\* C6 as stated: with caching enabled, setCache(k, v) with v not null or
\* undefined, followed by getCache(k) before the entry's expiry, returns v;
\* once the entry's TTL has elapsed (now >= expiresAt) getCache(k) misses.
C6_RoundTrip ==
    [][(GetStep /\ cacheEnabled) =>
          /\ (/\ fresh # None /\ fresh[1].key = lastOp'.key
              /\ now < Entry(cache, lastOp'.key).expiresAt)
             => (lastOp'.ok /\ lastOp'.val = Some(fresh[1].val))
          /\ (/\ Has(cache, lastOp'.key)
              /\ now >= Entry(cache, lastOp'.key).expiresAt)
             => ~lastOp'.ok]_vars

\* C7 as stated: a lookup of a cached key reports a hit only while
\* now < expiresAt; at every now >= expiresAt it reports a miss and removes
\* the entry.
C7_NoStaleHit ==
    [][(LookupStep /\ cacheEnabled /\ Has(cache, lastOp'.key)) =>
          /\ lastOp'.ok => now < Entry(cache, lastOp'.key).expiresAt
          /\ now >= Entry(cache, lastOp'.key).expiresAt
                => (~lastOp'.ok /\ ~Has(cache', lastOp'.key))]_vars

TwentyPercentUp(n) == CHOOSE k \in 1..n : 5 * k >= n /\ (k = 1 \/ 5 * (k - 1) < n)

\* C9: a setCache that finds the cache at maxSize removes max(1, ceil(20%))
\* entries, and no entry it keeps was last accessed strictly earlier than one
\* it removes; a getCache hit sets the entry's last-accessed time to now.
C9_LruEviction ==
    /\ (lastOp.op = "set" /\ lastOp.ok
            /\ Len(lastOp.evicted) + Len(lastOp.kept) >= maxSize) =>
          /\ Len(lastOp.evicted) = TwentyPercentUp(Len(lastOp.evicted) + Len(lastOp.kept))
          /\ \A i \in DOMAIN lastOp.evicted, j \in DOMAIN lastOp.kept :
                ~(lastOp.kept[j].e.lastAccessed < lastOp.evicted[i].e.lastAccessed)
    /\ (lastOp.op = "get" /\ lastOp.ok) =>
          Entry(cache, lastOp.key).lastAccessed = now

\* two entries are evicted, one of them read at time 1, while an entry that a
\* getCache hit touched at time 2 and an entry read at time 1 are kept
C9_Witness ==
    /\ lastOp.op = "set" /\ lastOp.ok
    /\ Len(lastOp.evicted) = 2
    /\ \E i \in DOMAIN lastOp.evicted : lastOp.evicted[i].e.lastAccessed = 1
    /\ \E j \in DOMAIN lastOp.kept : lastOp.kept[j].e.lastAccessed = 2
    /\ \E j \in DOMAIN lastOp.kept : lastOp.kept[j].e.lastAccessed = 1

\* c2 is c without the entries whose key is in `gone`, the others unchanged;
\* a getCache of a removed key then misses
RemovedExactly(c, c2, gone) ==
    /\ Keys(c2) = Keys(c) \ gone
    /\ \A k \in Keys(c2) : Entry(c2, k) = Entry(c, k)
    /\ \A k \in gone : ~hasCacheAt(c2, k, now)[1]

\* C19 as stated: after clearCacheByType(t) no entry tagged t remains, after
\* invalidateCache(p) no entry whose key matches p remains; every other entry
\* is left unchanged, and a getCache of a removed key misses.
C19_Invalidation ==
    [][/\ \A t \in ClearTypes :
              ClearCacheByType(t) =>
                  RemovedExactly(cache, cache', {k \in Keys(cache) : Entry(cache, k).type = t})
       /\ \A p \in Patterns :
              InvalidateCache(p) =>
                  RemovedExactly(cache, cache',
                                 {k \in Keys(cache) : KeyIncludes(k, p.source)})]_vars

\* C26: a run of clearExpiredCache removes exactly the entries that are past
\* their expiry (now > expiresAt) and leaves every other entry unchanged; it
\* removes no entry for which a lookup at the same instant reports a hit.
C26_SweepExact ==
    [][ClearExpiredCache =>
          /\ Keys(cache') = {k \in Keys(cache) : ~(now > Entry(cache, k).expiresAt)}
          /\ \A k \in Keys(cache') : Entry(cache', k) = Entry(cache, k)
          /\ \A i, j \in DOMAIN cache' :
                 i < j => Idx(cache, cache'[i].key) < Idx(cache, cache'[j].key)
          /\ \A k \in Keys(cache) :
                 hasCacheAt(cache, k, now)[1] => k \in Keys(cache')]_vars

\* a sweep removed an entry and kept one that is exactly at its expiry, which
\* a lookup still reports as a hit
C26_Witness ==
    /\ lastOp.op = "sweep"
    /\ Len(lastOp.evicted) >= 1
    /\ \E k \in Keys(cache) :
           Entry(cache, k).expiresAt = now /\ hasCacheAt(cache, k, now)[1]

\* C27: each getCache returns the same result (a hit with the same value, or
\* a miss) in the run with sweeps interleaved as in the run of the same
\* operations and clock advances without any sweep.
C27_SweepTransparent ==
    lastOp.op = "get" => twinGet = Some([ok |-> lastOp.ok, val |-> lastOp.val])

-----------------------------------------------------------------------------
(* Properties of the request executor, checked under ClientSpec.            *)

\* the variant the taxonomy prescribes for a status
VariantOf(status) ==
    IF status \in {401, 403} THEN "KlaviyoAuthError"
    ELSE IF status = 404 THEN "KlaviyoNotFoundError"
    ELSE IF status = 429 THEN "KlaviyoRateLimitError"
    ELSE IF status \in {400, 422} THEN "KlaviyoValidationError"
    ELSE "KlaviyoError"

\* C5: a request whose response has a non-2xx status fails, with the one
\* variant its status prescribes: 401/403 Auth, 404 NotFound, 429 RateLimit,
\* 400/422 Validation, any other status Generic carrying that status code.
C5_ErrorPartition ==
    (cpc = "done" /\ resp # None /\ ~(resp[1] \in 200..299)) =>
        /\ outcome.kind = "error"
        /\ outcome.name = VariantOf(resp[1])
        /\ outcome.name = "KlaviyoError" => outcome.statusCode = resp

C5_Witness ==
    /\ cpc = "done" /\ resp = Some(403)
    /\ outcome.name = "KlaviyoAuthError"
    /\ outcome.message = Message("API error", 403)

\* the same read request succeeded earlier and its cache TTL has not run out
ServedFresh(r) ==
    \E x \in served :
        /\ x.key = KeyOf(r)
        /\ now < x.at + getTtlMs(getCacheType(x.key))

\* C10 as stated: with caching enabled, a GET request identical to an earlier
\* successful one, issued before that entry's TTL expires, starts no new
\* network exchange.
C10_NoRedundantExchange ==
    [][\A r \in Requests :
          (Request(r) /\ r.method = "GET" /\ cacheEnabled /\ ServedFresh(r))
              => exchanges' = exchanges]_vars

\* C11 as stated: a request whose network exchange, the reading of the
\* response body included, is still in progress when the configured timeout
\* elapses is aborted and fails with the timeout error (Generic, status 408).
C11_Timeout ==
    elapsed =>
        /\ cpc = "done"
        /\ outcome = KlaviyoError(Message("Request timeout", 0), Some(408), None)

\* the credential is empty or does not start with "pk_"
BadKey(k) == k = <<>> \/ Len(k) < 3 \/ k[1] # "p" \/ k[2] # "k" \/ k[3] # "_"

\* C16: constructing the request executor with an empty credential, or one
\* that does not start with "pk_", fails with an Auth error before any network
\* activity; no client instance exists afterwards and no request is ever sent
\* with such a credential.
C16_CredentialValidation ==
    /\ (ctor.key # None /\ BadKey(ctor.key[1])) =>
          /\ ctor.err.kind = "error" /\ ctor.err.name = "KlaviyoAuthError"
          /\ client = None
          /\ exchanges = 0 /\ cpc = "idle"
    /\ client # None => ~BadKey(client[1].apiKey)
    /\ exchanges > 0 => client # None

C16_Witness ==
    /\ ctor.key = Some(<<"x", "p", "k", "_">>)
    /\ ctor.err = KlaviyoAuthError(Message("Invalid API key format", 0))
    /\ client = None

\* C17: a response with status 204 makes the call succeed with a defined empty
\* payload (not null, not undefined), and no body is decoded for it.
C17_NoContent ==
    resp = Some(204) =>
        /\ cpc = "done"
        /\ outcome.kind = "ok"
        /\ outcome.payload = "{}"

C17_Witness ==
    /\ cpc = "done" /\ resp = Some(204)
    /\ creq # None /\ creq[1].method = "POST"
    /\ outcome = Ok("{}")

\* C28: when the body of a non-2xx response cannot be parsed as a JSON error
\* list (it is not JSON, or JSON without an errors list), the request fails
\* with the variant its status prescribes and the message made of the status
\* code and status text; no other error takes its place.
C28_MalformedErrorBody ==
    [][\A body \in {"unparseable", "noerrors"}, ra \in RetryAfterHeaders :
          ErrorBodyRead(body, ra) =>
              /\ outcome'.kind = "error"
              /\ outcome'.name = VariantOf(resp[1])
              /\ outcome'.message = Message("API error", resp[1])
              /\ outcome'.errors = None]_vars

\* a 422 without an error list failed as a Validation error whose message
\* is the one made of the status
C28_Witness ==
    /\ cpc = "done" /\ resp = Some(422)
    /\ outcome.name = "KlaviyoValidationError"
    /\ outcome.message = Message("API error", 422)
    /\ outcome.errors = None

\* C29: every failure of a request is an Error of the taxonomy; a transport
\* failure and a failure to decode a 2xx body are Generic errors without a
\* status code, and the Error classified from a non-2xx status is the one
\* handleErrorResponse threw, not a wrapper around it.
C29_ClosedTaxonomy ==
    (cpc = "done" /\ outcome.kind # "ok") =>
        /\ outcome.kind = "error"
        /\ outcome.name \in KlaviyoErrors
        /\ (resp = None /\ ~elapsed) =>
              outcome = KlaviyoError(Message("Request failed", 0), None, None)
        /\ (resp # None /\ ResponseOk(resp[1])) =>
              outcome = KlaviyoError(Message("Request failed", 0), None, None)
        /\ (resp # None /\ ~ResponseOk(resp[1])) =>
              \E body \in ErrorBodies, ra \in RetryAfterHeaders :
                  outcome = handleErrorResponse(resp[1], body, ra)

\* the second request of the client got a 200 whose body could not be decoded
C29_Witness ==
    /\ cpc = "done" /\ exchanges = 2
    /\ resp = Some(200)
    /\ outcome = KlaviyoError(Message("Request failed", 0), None, None)

\* C30: the statusCode of the Error raised for a non-2xx response equals the
\* HTTP status of that response.
C30_StatusFidelity ==
    (cpc = "done" /\ resp # None /\ ~ResponseOk(resp[1])) => outcome.statusCode = resp

====
